---- MODULE Spec2Model ----
(***************************************************************************)
(* A model of zoidberg.py: make_maps (the FCI map builder), write_maps     *)
(* (the grid file writer) and fci_to_vtk (the VTK exporter).               *)
(*                                                                         *)
(* Lengths are integers in a common unit.  A quotient a / b of the code    *)
(* (true division) is kept exactly, as the pair <<a, b>>.                  *)
(***************************************************************************)
EXTENDS Integers, Sequences, FiniteSets, TLC

VARIABLES
    grid,               \* the Grid object handed to make_maps and write_maps
    magnetic_field,     \* the magnetic field object
    quiet,              \* make_maps' quiet argument
    have_evtk,          \* module global set by the import of gridToVTK
    mmpc,               \* make_maps: "loop", "returned" or "raised"
    mmerr,              \* the exception make_maps raised, or NoError
    j,                  \* make_maps' loop variable
    forward_xt_prime,   \* make_maps' four local arrays
    forward_zt_prime,
    backward_xt_prime,
    backward_zt_prime,
    maps,               \* <<the dictionary make_maps returned>>, NoMaps if it returned none
    progress,           \* the fractions update_progress was called with, in order
    planeWrites,        \* per plane j, how often [:, j, :] of the four arrays was assigned
    tracerRaisedAt,     \* the planes on which follow_field_lines raised (none or one)
    wmpc,               \* write_maps: "idle", "eval", "open", "done" or "raised"
    legacy,             \* write_maps' legacy argument
    idx,                \* write_maps: number of grid points already evaluated
    totalbx,            \* write_maps' local arrays
    totalbz,
    Bxy,
    evals,              \* number of Bxfunc / Bzfunc calls made so far
    file,               \* the grid file: whether it was created, and the f.write calls
    vtkpc,              \* fci_to_vtk: "idle", "returned" or "raised"
    vtkerr,             \* the exception fci_to_vtk raised, or NoError
    infile,             \* the file fci_to_vtk was given
    vtkOpened,          \* whether fci_to_vtk opened infile
    vtkReads,           \* the keys fci_to_vtk read, in order
    vtkOut              \* <<what gridToVTK wrote>>, NoOutput if nothing

mmvars  == <<mmpc, mmerr, j, forward_xt_prime, forward_zt_prime, backward_xt_prime,
             backward_zt_prime, maps, progress, planeWrites, tracerRaisedAt>>
wmvars  == <<wmpc, legacy, idx, totalbx, totalbz, Bxy, evals, file>>
vtkvars == <<vtkpc, vtkerr, infile, vtkOpened, vtkReads, vtkOut>>
envvars == <<grid, magnetic_field, quiet, have_evtk>>
vars    == <<envvars, mmvars, wmvars, vtkvars>>

\* ------------------------------------------------------------------ bounds
MaxNx == 2
MaxNy == 3
MaxNz == 2
MaxRmaj == 1
Deltas == {1, 2}            \* step sizes delta_x, delta_z
Origins == {0, 1}           \* first coordinate of xarray, zarray
Fields == {"zero", "sheared"}

NoMaps == <<>>
NoError == "NoError"
NoOutput == <<>>

\* ------------------------------------------------------------ exact quotients
Div(a, b) == <<a, b>>
RatEq(p, q) == p[1] * q[2] = q[1] * p[2]
RatLess(p, q) == p[1] * q[2] < q[1] * p[2]          \* denominators are positive
RatAdd(p, q) == <<p[1] * q[2] + q[1] * p[2], p[2] * q[2]>>
RatSubInt(p, n) == <<p[1] - n * p[2], p[2]>>
RatMulInt(p, n) == <<p[1] * n, p[2]>>
Zero == <<0, 1>>

\* ------------------------------------------------------------------- Grid
\* The Grid object: point counts, uniform steps, coordinate arrays.
Grids ==
    { [nx |-> nx, ny |-> ny, nz |-> nz, delta_x |-> dx, delta_y |-> 1, delta_z |-> dz,
       x0 |-> x0, z0 |-> z0, Rmaj |-> R] :
        nx \in 1..MaxNx, ny \in 1..MaxNy, nz \in 1..MaxNz, dx \in Deltas, dz \in Deltas,
        x0 \in Origins, z0 \in Origins, R \in 1..MaxRmaj }

xarray(g) == [i \in 0..(g.nx - 1) |-> g.x0 + i * g.delta_x]
yarray(g) == [jj \in 0..(g.ny - 1) |-> jj * g.delta_y]
zarray(g) == [k \in 0..(g.nz - 1) |-> g.z0 + k * g.delta_z]

Points(g) == (0..(g.nx - 1)) \X (0..(g.ny - 1)) \X (0..(g.nz - 1))
zeros(g) == [p \in Points(g) |-> Zero]

\* ---------------------------------------------------------- magnetic field
\* Bxfunc(x, z, y) and Bzfunc(x, z, y) of the two fields of the model.
Bxfunc(f, x, z, y) == IF f = "zero" THEN 0 ELSE 1
Bzfunc(f, x, z, y) == IF f = "zero" THEN 0 ELSE y + 1

\* FieldTracer.follow_field_lines(x_coords, z_coords, [y0, dy])[1, ...]:
\* the end point of the field line from each starting point, one step of dy.
follow_field_lines(f, x_coords, z_coords, y0, dy) ==
    [n \in 1..Len(x_coords) |->
        <<x_coords[n] + Bxfunc(f, x_coords[n], z_coords[n], y0) * dy,
          z_coords[n] + Bzfunc(f, x_coords[n], z_coords[n], y0) * dy>>]

\* ---------------------------------------------------------------- make_maps
\* np.meshgrid(grid.xarray, grid.zarray, indexing='ij')
x2d(g) == [p \in (0..(g.nx - 1)) \X (0..(g.nz - 1)) |-> xarray(g)[p[1]]]
z2d(g) == [p \in (0..(g.nx - 1)) \X (0..(g.nz - 1)) |-> zarray(g)[p[2]]]

\* a2d.flatten(): row-major, the z index running fastest
flatten(g, a2d) ==
    [n \in 1..(g.nx * g.nz) |-> a2d[<<(n - 1) \div g.nz, (n - 1) % g.nz>>]]

\* coord.reshape((grid.nx, grid.nz, 2))
reshape(g, coord) ==
    [p \in (0..(g.nx - 1)) \X (0..(g.nz - 1)) |-> coord[p[1] * g.nz + p[2] + 1]]

\* coord of plane jj, forwards (dir = 1) or backwards (dir = -1)
PlaneCoord(g, f, jj, dir) ==
    reshape(g, follow_field_lines(f, flatten(g, x2d(g)), flatten(g, z2d(g)),
                                  yarray(g)[jj], dir * g.delta_y))

\* An assignment that would reach one plane too far: arr[:, jj:jj+2, :] = ...
SetPlaneOffByOne(arr, jj, coord, c, delta) ==
    [p \in DOMAIN arr |->
        IF p[2] \in {jj, jj + 1} THEN Div(coord[<<p[1], p[3]>>][c], delta) ELSE arr[p]]

\* arr[:, jj, :] = coord[:, :, c] / delta
SetPlane(arr, jj, coord, c, delta) ==
    [p \in DOMAIN arr |->
        IF p[2] = jj THEN Div(coord[<<p[1], p[3]>>][c], delta) ELSE arr[p]]

\* A fraction that would divide by ny: float(j)/float(ny)
ProgressFractionOverNy(g, jj) == Div(jj, g.ny)

\* float(j)/float(ny-1)
ProgressFraction(g, jj) == Div(jj, g.ny - 1)

\* if not quiet: update_progress(...), when update_progress returns
Reported == IF quiet THEN progress ELSE Append(progress, ProgressFraction(grid, j))

\* the forward trace of plane jj and its two assignments (c = 1: x, c = 2: z)
ForwardTraced(arr, jj, c, delta) ==
    SetPlane(arr, jj, PlaneCoord(grid, magnetic_field, jj, 1), c, delta)
\* the backward trace of plane jj and its two assignments
BackwardTraced(arr, jj, c, delta) ==
    SetPlane(arr, jj, PlaneCoord(grid, magnetic_field, jj, -1), c, delta)

\* The loop body for plane jj, progress report apart.
TracePlane(jj) ==
    /\ forward_xt_prime' = ForwardTraced(forward_xt_prime, jj, 1, grid.delta_x)
    /\ forward_zt_prime' = ForwardTraced(forward_zt_prime, jj, 2, grid.delta_z)
    /\ backward_xt_prime' = BackwardTraced(backward_xt_prime, jj, 1, grid.delta_x)
    /\ backward_zt_prime' = BackwardTraced(backward_zt_prime, jj, 2, grid.delta_z)
    /\ planeWrites' = [planeWrites EXCEPT ![jj] = @ + 1]

\* maps = {...}; return maps
ReturnedMaps ==
    <<[forward_xt_prime |-> forward_xt_prime,
       forward_zt_prime |-> forward_zt_prime,
       backward_xt_prime |-> backward_xt_prime,
       backward_zt_prime |-> backward_zt_prime]>>

\* One pass of the loop body in which nothing raises.
MM_Plane ==
    /\ mmpc = "loop" /\ j < grid.ny
    /\ quiet \/ grid.ny > 1
    /\ progress' = Reported
    /\ TracePlane(j)
    /\ j' = j + 1
    /\ UNCHANGED <<mmpc, mmerr, maps, tracerRaisedAt>>
    /\ UNCHANGED <<envvars, wmvars, vtkvars>>

\* float(j)/float(ny-1) with ny = 1: float division by zero.
MM_DivZero ==
    /\ mmpc = "loop" /\ j < grid.ny
    /\ ~quiet /\ grid.ny = 1
    /\ mmpc' = "raised" /\ mmerr' = "ZeroDivisionError"
    /\ UNCHANGED <<j, forward_xt_prime, forward_zt_prime, backward_xt_prime,
                   backward_zt_prime, maps, progress, planeWrites, tracerRaisedAt>>
    /\ UNCHANGED <<envvars, wmvars, vtkvars>>

\* update_progress raises: nothing in make_maps catches it.
MM_ProgressRaise ==
    /\ mmpc = "loop" /\ j < grid.ny
    /\ ~quiet /\ grid.ny > 1
    /\ mmpc' = "raised" /\ mmerr' = "ProgressError"
    /\ UNCHANGED <<j, forward_xt_prime, forward_zt_prime, backward_xt_prime,
                   backward_zt_prime, maps, progress, planeWrites, tracerRaisedAt>>
    /\ UNCHANGED <<envvars, wmvars, vtkvars>>

\* A handler that would swallow the tracer's exception and return what was traced.
MM_TracerRaiseSwallowed ==
    /\ mmpc = "loop" /\ j < grid.ny
    /\ quiet \/ grid.ny > 1
    /\ progress' = Reported
    /\ tracerRaisedAt' = {j}
    /\ mmpc' = "returned" /\ mmerr' = NoError
    /\ maps' = ReturnedMaps
    /\ UNCHANGED <<j, forward_xt_prime, forward_zt_prime, backward_xt_prime,
                   backward_zt_prime, planeWrites>>
    /\ UNCHANGED <<envvars, wmvars, vtkvars>>

\* follow_field_lines raises, in the forward or in the backward trace of plane j:
\* the exception leaves make_maps, which returns nothing.
MM_TracerRaise ==
    /\ mmpc = "loop" /\ j < grid.ny
    /\ quiet \/ grid.ny > 1
    /\ progress' = Reported
    /\ tracerRaisedAt' = {j}
    /\ mmpc' = "raised" /\ mmerr' = "TracingError"
    /\ \E backward \in BOOLEAN :
        /\ forward_xt_prime' =
              IF backward THEN ForwardTraced(forward_xt_prime, j, 1, grid.delta_x)
              ELSE forward_xt_prime
        /\ forward_zt_prime' =
              IF backward THEN ForwardTraced(forward_zt_prime, j, 2, grid.delta_z)
              ELSE forward_zt_prime
    /\ UNCHANGED <<j, backward_xt_prime, backward_zt_prime, maps, planeWrites>>
    /\ UNCHANGED <<envvars, wmvars, vtkvars>>

\* The loop is over: build the dictionary and return it.
MM_Return ==
    /\ mmpc = "loop" /\ j = grid.ny
    /\ mmpc' = "returned"
    /\ maps' = ReturnedMaps
    /\ UNCHANGED <<mmerr, j, forward_xt_prime, forward_zt_prime, backward_xt_prime,
                   backward_zt_prime, progress, planeWrites, tracerRaisedAt>>
    /\ UNCHANGED <<envvars, wmvars, vtkvars>>

\* --------------------------------------------------------------- write_maps
NumPoints(g) == g.nx * g.ny * g.nz

\* The grid point the triple loop visits n-th (n from 0): i outermost, k innermost.
PointAt(g, n) == <<n \div (g.ny * g.nz), (n \div g.nz) % g.ny, n % g.nz>>

\* np.sqrt(a), kept exact
Sqrt(a) == <<"sqrt", a>>

\* np.zeros((nx,ny)) + 1./grid.Rmaj**2
g_22(g) == [p \in (0..(g.nx - 1)) \X (0..(g.ny - 1)) |-> Div(1, g.Rmaj * g.Rmaj)]

\* boutdata.input.transform3D: the discrete Fourier transform of every row
\* arr[i, j, :].  Coefficient m is sum_k arr[i,j,k] * w^(k*m) with w^nz = 1; it is
\* kept exactly, as the sequence of the sums that multiply w^0 .. w^(nz-1).
RECURSIVE RowSum(_, _, _, _, _, _, _)
RowSum(arr, i, jj, m, e, nz, k) ==
    IF k < 0 THEN Zero
    ELSE LET rest == RowSum(arr, i, jj, m, e, nz, k - 1)
         IN  IF (k * m) % nz = e THEN RatAdd(rest, arr[<<i, jj, k>>]) ELSE rest

transform3D(g, arr) ==
    [p \in DOMAIN arr |->
        [e \in 1..g.nz |-> RowSum(arr, p[1], p[2], p[3], e - 1, g.nz, g.nz - 1)]]

\* A writer that would store the maps as computed whatever legacy is.
StoredRaw(g, m, leg) == m

\* what is stored under a map key
Stored(g, m, leg) == IF leg THEN transform3D(g, m) ELSE m

\* the f.write calls of the with block, in order
Writes(g, m, leg) ==
    <<<<"nx", g.nx>>, <<"ny", g.ny>>>>
    \o (IF ~leg THEN <<<<"nz", g.nz>>>> ELSE <<>>)
    \o <<<<"dx", g.delta_x>>, <<"dy", g.delta_y>>,
         <<"ixseps1", g.nx + 1>>, <<"ixseps2", g.nx + 1>>,
         <<"g_22", g_22(g)>>,
         <<"Bxy", [p \in (0..(g.nx - 1)) \X (0..(g.ny - 1)) |-> Bxy[<<p[1], p[2], 0>>]]>>,
         <<"bx", totalbx>>, <<"bz", totalbz>>,
         <<"forward_xt_prime", Stored(g, m.forward_xt_prime, leg)>>,
         <<"forward_zt_prime", Stored(g, m.forward_zt_prime, leg)>>,
         <<"backward_xt_prime", Stored(g, m.backward_xt_prime, leg)>>,
         <<"backward_zt_prime", Stored(g, m.backward_zt_prime, leg)>>>>

\* DataFile: the keys of a file, and f.read(key)
Keys(f) == {f.log[n][1] : n \in 1..Len(f.log)}
Has(f, key) == key \in Keys(f)
Read(f, key) ==
    LET n == CHOOSE n \in 1..Len(f.log) :
                 /\ f.log[n][1] = key
                 /\ \A n2 \in (n + 1)..Len(f.log) : f.log[n2][1] # key
    IN  f.log[n][2]
TimesWritten(f, key) == Cardinality({n \in 1..Len(f.log) : f.log[n][1] = key})

NoSuchFile == [exists |-> FALSE, log |-> <<>>]

\* write_maps is called with the maps make_maps returned.
WM_Call ==
    /\ mmpc = "returned" /\ wmpc = "idle" /\ vtkpc = "idle"
    /\ wmpc' = "eval"
    /\ legacy' \in BOOLEAN
    /\ idx' = 0
    /\ totalbx' = [p \in Points(grid) |-> 0]
    /\ totalbz' = [p \in Points(grid) |-> 0]
    /\ Bxy' = [p \in Points(grid) |-> Sqrt(0)]
    /\ UNCHANGED <<evals, file>>
    /\ UNCHANGED <<envvars, mmvars, vtkvars>>

\* One pass of the innermost loop body: Bxfunc and Bzfunc are each called twice.
WM_Eval ==
    /\ wmpc = "eval" /\ idx < NumPoints(grid)
    /\ LET p  == PointAt(grid, idx)
           x  == xarray(grid)[p[1]]
           y  == yarray(grid)[p[2]]
           z  == zarray(grid)[p[3]]
           bx == Bxfunc(magnetic_field, x, z, y)
           bz == Bzfunc(magnetic_field, x, z, y)
       IN  /\ Bxy' = [Bxy EXCEPT ![p] = Sqrt(bx * bx + bz * bz)]
           /\ totalbx' = [totalbx EXCEPT ![p] = bx]
           /\ totalbz' = [totalbz EXCEPT ![p] = bz]
    /\ evals' = evals + 4
    /\ idx' = idx + 1
    /\ UNCHANGED <<wmpc, legacy, file>>
    /\ UNCHANGED <<envvars, mmvars, vtkvars>>

\* A field evaluation raises: the exception leaves write_maps from inside the loop.
WM_EvalRaise ==
    /\ wmpc = "eval" /\ idx < NumPoints(grid)
    /\ wmpc' = "raised"
    /\ evals' = evals + 1
    /\ UNCHANGED <<legacy, idx, totalbx, totalbz, Bxy, file>>
    /\ UNCHANGED <<envvars, mmvars, vtkvars>>

\* A writer that would open the grid file before the evaluation loop.
WM_OpenBeforeLoop ==
    /\ wmpc = "eval" /\ idx = 0 /\ ~file.exists
    /\ file' = [exists |-> TRUE, log |-> <<>>]
    /\ UNCHANGED <<wmpc, legacy, idx, totalbx, totalbz, Bxy, evals>>
    /\ UNCHANGED <<envvars, mmvars, vtkvars>>

\* with bdata.DataFile(gridfile, write=True, create=True) as f: after the loop
WM_Open ==
    /\ wmpc = "eval" /\ idx = NumPoints(grid)
    /\ wmpc' = "open"
    /\ file' = [exists |-> TRUE, log |-> <<>>]
    /\ UNCHANGED <<legacy, idx, totalbx, totalbz, Bxy, evals>>
    /\ UNCHANGED <<envvars, mmvars, vtkvars>>

\* the body of the with block
WM_Write ==
    /\ wmpc = "open"
    /\ wmpc' = "done"
    /\ file' = [file EXCEPT !.log = Writes(grid, maps[1], legacy)]
    /\ UNCHANGED <<legacy, idx, totalbx, totalbz, Bxy, evals>>
    /\ UNCHANGED <<envvars, mmvars, vtkvars>>

\* --------------------------------------------------------------- fci_to_vtk
scale == 5

\* A grid file that holds no bx and no bz.
WithoutField(f) ==
    [f EXCEPT !.log = SelectSeq(f.log, LAMBDA e : e[1] \notin {"bx", "bz"})]

\* The files fci_to_vtk may be given: one that does not exist, the grid file
\* write_maps wrote, and that file without its field components.
InFiles == {NoSuchFile} \cup (IF wmpc = "done" THEN {file, WithoutField(file)} ELSE {})

\* make_maps and write_maps are not running.
Quiescent == mmpc = "raised" \/ wmpc \in {"raised", "done"}

\* bx.shape
Shape(arr) ==
    <<Cardinality({p[1] : p \in DOMAIN arr}), Cardinality({p[2] : p \in DOMAIN arr}),
      Cardinality({p[3] : p \in DOMAIN arr})>>

\* np.linspace(0, stop, n), stop an exact quotient
linspace(stop, n) ==
    [m \in 0..(n - 1) |-> IF n = 1 THEN Zero ELSE <<m * stop[1], stop[2] * (n - 1)>>]

\* gridToVTK(outfile, x*scale, y, z*scale, pointData={'B' : (bx*scale, by, bz*scale)})
VtkFile(dx, dy, bx, by, bz) ==
    LET nx == Shape(bx)[1]
        ny == Shape(bx)[2]
        nz == Shape(bx)[3]
        dz == Div(nx * dx, nz)
        x  == linspace(Div(nx * dx, 1), nx)
        y  == linspace(Div(ny * dy, 1), ny)
        z  == linspace(RatMulInt(dz, nz), nz)
    IN  [x |-> [m \in DOMAIN x |-> RatMulInt(x[m], scale)],
         y |-> y,
         z |-> [m \in DOMAIN z |-> RatMulInt(z[m], scale)],
         B |-> [p \in DOMAIN bx |-> <<bx[p] * scale, by[p], bz[p] * scale>>]]

\* An exporter that would go on without the backend.
VTK_NoBackendIgnored ==
    /\ vtkpc = "idle" /\ Quiescent
    /\ ~have_evtk
    /\ \E f \in InFiles :
        /\ infile' = f
        /\ vtkOpened' = f.exists
        /\ vtkpc' = "raised" /\ vtkerr' = "NameError"
        /\ vtkReads' = IF f.exists THEN <<"dx", "dy", "bx">> ELSE <<>>
    /\ UNCHANGED vtkOut
    /\ UNCHANGED <<envvars, mmvars, wmvars>>

\* if not have_evtk: return
VTK_NoBackend ==
    /\ vtkpc = "idle" /\ Quiescent
    /\ ~have_evtk
    /\ \E f \in InFiles : infile' = f
    /\ vtkpc' = "returned"
    /\ UNCHANGED <<vtkerr, vtkOpened, vtkReads, vtkOut>>
    /\ UNCHANGED <<envvars, mmvars, wmvars>>

\* DataFile(infile, write=False, create=False) on a file that does not exist
VTK_OpenFail ==
    /\ vtkpc = "idle" /\ Quiescent
    /\ have_evtk
    /\ infile' = NoSuchFile
    /\ vtkpc' = "raised" /\ vtkerr' = "IOError"
    /\ UNCHANGED <<vtkOpened, vtkReads, vtkOut>>
    /\ UNCHANGED <<envvars, mmvars, wmvars>>

\* The file holds bx and bz: they are read and written out.
VTK_Export ==
    /\ vtkpc = "idle" /\ Quiescent
    /\ have_evtk
    /\ \E f \in InFiles :
        /\ f.exists /\ Has(f, "bx")
        /\ infile' = f
        /\ vtkOut' = LET bx == Read(f, "bx")
                     IN  <<VtkFile(Read(f, "dx"), Read(f, "dy"), bx,
                                   [p \in DOMAIN bx |-> 1], Read(f, "bz"))>>
    /\ vtkOpened' = TRUE
    /\ vtkReads' = <<"dx", "dy", "bx", "bz">>
    /\ vtkpc' = "returned"
    /\ UNCHANGED vtkerr
    /\ UNCHANGED <<envvars, mmvars, wmvars>>

\* The file holds no bx: f.read('bx') is None and np.ones(bx.shape) raises,
\* before bx is compared with None.
VTK_NoneShape ==
    /\ vtkpc = "idle" /\ Quiescent
    /\ have_evtk
    /\ \E f \in InFiles :
        /\ f.exists /\ ~Has(f, "bx")
        /\ infile' = f
    /\ vtkOpened' = TRUE
    /\ vtkReads' = <<"dx", "dy", "bx">>
    /\ vtkpc' = "raised" /\ vtkerr' = "AttributeError"
    /\ UNCHANGED vtkOut
    /\ UNCHANGED <<envvars, mmvars, wmvars>>

\* ------------------------------------------------------------ specification
Init ==
    /\ grid \in Grids
    /\ magnetic_field \in Fields
    /\ quiet \in BOOLEAN
    /\ have_evtk \in BOOLEAN
    /\ mmpc = "loop" /\ mmerr = NoError /\ j = 0
    /\ forward_xt_prime = zeros(grid) /\ forward_zt_prime = zeros(grid)
    /\ backward_xt_prime = zeros(grid) /\ backward_zt_prime = zeros(grid)
    /\ maps = NoMaps
    /\ progress = <<>>
    /\ planeWrites = [jj \in 0..(grid.ny - 1) |-> 0]
    /\ tracerRaisedAt = {}
    /\ wmpc = "idle" /\ legacy = FALSE /\ idx = 0
    /\ totalbx = [p \in Points(grid) |-> 0]
    /\ totalbz = [p \in Points(grid) |-> 0]
    /\ Bxy = [p \in Points(grid) |-> Sqrt(0)]
    /\ evals = 0
    /\ file = NoSuchFile
    /\ vtkpc = "idle" /\ vtkerr = NoError /\ infile = NoSuchFile
    /\ vtkOpened = FALSE /\ vtkReads = <<>> /\ vtkOut = NoOutput

Next ==
    \/ MM_Plane
    \/ MM_DivZero
    \/ MM_ProgressRaise
    \/ MM_TracerRaise
    \/ MM_Return
    \/ WM_Call
    \/ WM_Eval
    \/ WM_EvalRaise
    \/ WM_Open
    \/ WM_Write
    \/ VTK_NoBackend
    \/ VTK_OpenFail
    \/ VTK_Export
    \/ VTK_NoneShape

Spec == Init /\ [][Next]_vars

\* The loop body of make_maps applied to the planes in any order.
AO_Plane(jj) ==
    /\ mmpc = "loop" /\ planeWrites[jj] = 0
    /\ TracePlane(jj)
    /\ UNCHANGED <<mmpc, mmerr, j, maps, progress, tracerRaisedAt>>
    /\ UNCHANGED <<envvars, wmvars, vtkvars>>

AO_Return ==
    /\ mmpc = "loop" /\ \A jj \in DOMAIN planeWrites : planeWrites[jj] = 1
    /\ mmpc' = "returned"
    /\ maps' = ReturnedMaps
    /\ UNCHANGED <<mmerr, j, forward_xt_prime, forward_zt_prime, backward_xt_prime,
                   backward_zt_prime, progress, planeWrites, tracerRaisedAt>>
    /\ UNCHANGED <<envvars, wmvars, vtkvars>>

NextAnyOrder ==
    \/ \E jj \in 0..(grid.ny - 1) : AO_Plane(jj)
    \/ AO_Return

SpecAnyOrder == Init /\ [][NextAnyOrder]_vars

\* ------------------------------------------------------------------ claims
MapKeys == {"forward_xt_prime", "forward_zt_prime", "backward_xt_prime", "backward_zt_prime"}
One == <<1, 1>>

\* The four arrays after the first n passes of the loop for j in range(ny).
RECURSIVE LoopResult(_)
LoopResult(n) ==
    IF n = 0
    THEN [forward_xt_prime |-> zeros(grid), forward_zt_prime |-> zeros(grid),
          backward_xt_prime |-> zeros(grid), backward_zt_prime |-> zeros(grid)]
    ELSE LET a == LoopResult(n - 1)
         IN  [forward_xt_prime |-> ForwardTraced(a.forward_xt_prime, n - 1, 1, grid.delta_x),
              forward_zt_prime |-> ForwardTraced(a.forward_zt_prime, n - 1, 2, grid.delta_z),
              backward_xt_prime |-> BackwardTraced(a.backward_xt_prime, n - 1, 1, grid.delta_x),
              backward_zt_prime |-> BackwardTraced(a.backward_zt_prime, n - 1, 2, grid.delta_z)]

\* C1: once the field-line tracer has raised on a plane, make_maps has ended by
\* raising the tracer's error, has returned no maps (none of the arrays traced so
\* far), and no grid file is created.
C1_TracerFailureReturnsNothing ==
    tracerRaisedAt # {} =>
        /\ mmpc = "raised" /\ mmerr = "TracingError"
        /\ maps = NoMaps
        /\ wmpc = "idle" /\ ~file.exists /\ file.log = <<>>

\* The tracer raised on the last plane, after every earlier plane was traced.
C1_Witness ==
    /\ grid.ny >= 2 /\ tracerRaisedAt = {grid.ny - 1}
    /\ \A jj \in 0..(grid.ny - 2) : planeWrites[jj] = 1
    /\ mmpc = "raised"

\* C2: with ny > 1 and quiet false, a run of make_maps that returns has called
\* update_progress exactly ny times, the call for plane j with j/(ny-1): the
\* fractions increase strictly, start at 0, end at 1 and lie in [0,1].
C2_ProgressFractions ==
    (mmpc = "returned" /\ ~quiet /\ grid.ny > 1) =>
        /\ Len(progress) = grid.ny
        /\ \A n \in 1..grid.ny : RatEq(progress[n], <<n - 1, grid.ny - 1>>)
        /\ \A n \in 1..(grid.ny - 1) : RatLess(progress[n], progress[n + 1])
        /\ RatEq(progress[1], Zero) /\ RatEq(progress[grid.ny], One)
        /\ \A n \in 1..grid.ny : ~RatLess(progress[n], Zero) /\ ~RatLess(One, progress[n])

C2_Witness == mmpc = "returned" /\ ~quiet /\ grid.ny >= 3 /\ Len(progress) >= 3

\* C3: with ny = 1 and quiet false, make_maps reports progress 0 for the single
\* plane, raises nothing and returns the maps of plane 0.
C3_SinglePlaneReportsZero ==
    (grid.ny = 1 /\ ~quiet /\ mmpc # "loop") =>
        /\ mmpc = "returned" /\ mmerr = NoError
        /\ Len(progress) = 1 /\ RatEq(progress[1], Zero)
        /\ maps = <<LoopResult(1)>>

\* C4: an exception of the progress report never leaves make_maps.
C4_ProgressFailureNeverAborts ==
    ~(mmpc = "raised" /\ mmerr = "ProgressError")

\* C5: for the zero field, on every grid, every entry [i,j,k] of the returned
\* forward and backward x maps is i and of the z maps is k.
C5_ZeroFieldIdentity ==
    (magnetic_field = "zero" /\ mmpc = "returned") =>
        \A p \in Points(grid) :
            /\ RatEq(maps[1].forward_xt_prime[p], <<p[1], 1>>)
            /\ RatEq(maps[1].backward_xt_prime[p], <<p[1], 1>>)
            /\ RatEq(maps[1].forward_zt_prime[p], <<p[3], 1>>)
            /\ RatEq(maps[1].backward_zt_prime[p], <<p[3], 1>>)

\* C6: when write_maps is done, each of the four map keys was written exactly
\* once; without legacy the file holds nz and, under each map key, the array of
\* maps unchanged; with legacy it holds no nz and, under each map key, the
\* transform of the array of maps.
C6_LegacySelectsRepresentation ==
    wmpc = "done" =>
        /\ \A key \in MapKeys : TimesWritten(file, key) = 1
        /\ ~legacy =>
              /\ Has(file, "nz") /\ Read(file, "nz") = grid.nz
              /\ \A key \in MapKeys : Read(file, key) = maps[1][key]
        /\ legacy =>
              /\ ~Has(file, "nz")
              /\ \A key \in MapKeys : Read(file, key) = transform3D(grid, maps[1][key])

C6_Witness ==
    /\ wmpc = "done" /\ legacy /\ grid.nz >= 2 /\ magnetic_field = "sheared"
    /\ Has(file, "forward_xt_prime")

\* C7: with the backend available and an input file without bx, fci_to_vtk
\* raises nothing, reads the two forward maps and writes the field B.
C7_DerivesFieldFromMaps ==
    (have_evtk /\ vtkpc # "idle" /\ infile.exists /\ ~Has(infile, "bx")) =>
        /\ vtkpc = "returned" /\ vtkerr = NoError
        /\ \E n \in 1..Len(vtkReads) : vtkReads[n] = "forward_xt_prime"
        /\ \E n \in 1..Len(vtkReads) : vtkReads[n] = "forward_zt_prime"
        /\ vtkOut # NoOutput

\* C8: without the backend, fci_to_vtk returns without an error, never opens or
\* reads the input file and writes no output, whatever the input.
C8_NoBackendIsNoOp ==
    (~have_evtk /\ vtkpc # "idle") =>
        /\ vtkpc = "returned" /\ vtkerr = NoError
        /\ ~vtkOpened /\ vtkReads = <<>>
        /\ vtkOut = NoOutput

C8_Witness == ~have_evtk /\ vtkpc = "returned" /\ infile.exists /\ Has(infile, "bx")

\* C9: the work for a plane assigns nothing outside that plane of the four
\* arrays; no plane is assigned twice and a finished run has assigned each once;
\* and the planes taken in any order give the arrays of the loop j = 0..ny-1.
C9_Frame ==
    \A p \in Points(grid) :
        planeWrites'[p[2]] = planeWrites[p[2]] =>
            /\ forward_xt_prime'[p] = forward_xt_prime[p]
            /\ forward_zt_prime'[p] = forward_zt_prime[p]
            /\ backward_xt_prime'[p] = backward_xt_prime[p]
            /\ backward_zt_prime'[p] = backward_zt_prime[p]

C9_Once ==
    /\ \A jj \in DOMAIN planeWrites : planeWrites[jj] <= 1
    /\ mmpc = "returned" => \A jj \in DOMAIN planeWrites : planeWrites[jj] = 1

C9_Final == mmpc = "returned" => maps = <<LoopResult(grid.ny)>>

C9_PlanesIndependent == [][C9_Frame]_vars /\ [](C9_Once /\ C9_Final)

\* The last plane is done before the first.
C9_Witness ==
    /\ grid.ny >= 3 /\ magnetic_field = "sheared"
    /\ planeWrites[grid.ny - 1] = 1 /\ planeWrites[0] = 0

\* C10: the grid file exists only after all 4*nx*ny*nz field evaluations; a
\* write_maps that raised in an evaluation created no file; and once the file
\* exists no further evaluation is made.
C10_Inv ==
    /\ file.exists => (idx = NumPoints(grid) /\ evals = 4 * NumPoints(grid))
    /\ wmpc = "raised" => (~file.exists /\ file.log = <<>>)

C10_NoEvalOnceOpen == file.exists => evals' = evals

C10_EvaluationBeforeOpen == []C10_Inv /\ [][C10_NoEvalOnceOpen]_vars

C10_Witness ==
    /\ wmpc = "done" /\ file.exists /\ NumPoints(grid) >= 4
    /\ evals = 4 * NumPoints(grid)

====
